---- MODULE Spec2Model ----
(***************************************************************************)
(* Model of ralph_pricing.plugins.reports.usage.UsageBasePlugin: the       *)
(* report plugin that computes per-venture usage counts and costs from     *)
(* date-ranged price records (usages, total_cost, schema and the helper    *)
(* _incomplete_price).                                                     *)
(*                                                                         *)
(* The data base (UsageType, UsagePrice, DailyUsage, Warehouse rows) is    *)
(* the state; every public operation is one action that records its        *)
(* arguments in `call' and its return value in `ret'.                      *)
(***************************************************************************)
EXTENDS Integers, Sequences, FiniteSets, TLC

VARIABLES usage_type, usageprices, dailyusages, warehouses, call, ret

vars == <<usage_type, usageprices, dailyusages, warehouses, call, ret>>

db == <<usage_type, usageprices, dailyusages, warehouses>>

----------------------------------------------------------------------------
(* Bounds of the model *)

\* dates are the days 1..MaxDay
MaxDay == 2

\* at most MaxPrices UsagePrice rows of the usage type
MaxPrices == 2

Days == 1..MaxDay

Ventures == {"v1", "v2"}

WarehouseIds == {1, 2}

\* Python's None (the warehouse of a usage type that is not by_warehouse)
None == 0

----------------------------------------------------------------------------
(* The external entities *)

\* the UsageType rows: every combination of the two configuration flags
UsageTypes ==
    { [id |-> 1, by_warehouse |-> FALSE, by_cost |-> FALSE],
      [id |-> 2, by_warehouse |-> FALSE, by_cost |-> TRUE],
      [id |-> 3, by_warehouse |-> TRUE,  by_cost |-> FALSE],
      [id |-> 4, by_warehouse |-> TRUE,  by_cost |-> TRUE] }

\* a UsagePrice row valid over [s, e] for warehouse w; the four money fields
\* are pairwise different and differ from row to row
UsagePrice(s, e, w) ==
    [start |-> s, end |-> e, warehouse |-> w,
     price          |-> 2 * s + e + w,
     forecast_price |-> 2 * s + e + w + 10,
     cost           |-> 2 * s + e + w + 20,
     forecast_cost  |-> 2 * s + e + w + 30]

UsagePrices ==
    { UsagePrice(s, e, w) : s \in Days, e \in Days, w \in WarehouseIds }

\* a DailyUsage row: the usage of a venture in a warehouse on one day
DailyUsage(v, w, d) ==
    [pricing_venture |-> v, warehouse |-> w, date |-> d,
     value |-> 2 * d + w - 2]

\* the days on which a venture has usage, wherever it has usage at all:
\* one venture every day, every other venture on the last day only
UsageDays(v) == IF v = "v1" THEN Days ELSE {MaxDay}

\* the DailyUsage table in which exactly the (venture, warehouse) pairs of
\* `active' have usage
DailyUsagesOf(active) ==
    { u \in { DailyUsage(p[1], p[2], d) : p \in active, d \in Days } :
        u.date \in UsageDays(u.pricing_venture) }

DailyUsageTables ==
    { DailyUsagesOf(active) : active \in SUBSET (Ventures \X WarehouseIds) }

\* the order in which the Warehouse rows come out of the data base
WarehouseOrder == <<2, 1>>

\* the lists get_warehouses may return: the first n warehouses shown in
\* reports, none of them included
WarehouseLists ==
    { SubSeq(WarehouseOrder, 1, n) : n \in 0..Len(WarehouseOrder) }

\* sets of at most n elements of S
SubsetsUpTo(S, n) == { T \in SUBSET S : Cardinality(T) <= n }

----------------------------------------------------------------------------
(* Helpers of the framework and of the base plugin *)

RECURSIVE SumValues(_)
SumValues(rows) ==
    IF rows = {} THEN 0
    ELSE LET r == CHOOSE x \in rows : TRUE
         IN r.value + SumValues(rows \ {r})

\* DailyUsage rows of the period [start, end], of the warehouse when one is
\* given, of the given ventures
UsagesInPeriod(start, end, warehouse, ventures) ==
    { u \in dailyusages :
        /\ u.date >= start /\ u.date <= end
        /\ u.pricing_venture \in ventures
        /\ (warehouse # None => u.warehouse = warehouse) }

\* BaseReportPlugin._get_usages_in_period_per_venture: one row per venture
\* that has usage in the period, with the sum of its usage
GetUsagesInPeriodPerVenture(start, end, ut, warehouse, ventures) ==
    LET rows == UsagesInPeriod(start, end, warehouse, ventures)
    IN { [pricing_venture |-> v,
          usage |-> SumValues({ u \in rows : u.pricing_venture = v })] :
         v \in { u.pricing_venture : u \in rows } }

\* BaseReportPlugin._get_total_usage_in_period
GetTotalUsageInPeriod(start, end, ut, warehouse, ventures) ==
    SumValues(UsagesInPeriod(start, end, warehouse, ventures))

\* BaseReportPlugin._get_price_from_cost
GetPriceFromCost(usage_price, forecast, warehouse) ==
    IF forecast THEN usage_price.forecast_cost ELSE usage_price.cost

\* BaseReportPlugin.get_warehouses
GetWarehouses == warehouses

\* datetime arithmetic: (b - a).days
DaysBetween(a, b) == b - a

Min(a, b) == IF a <= b THEN a ELSE b

Max(a, b) == IF a >= b THEN a ELSE b

\* QuerySet.order_by('start'): rows of equal start in a fixed order
RECURSIVE OrderByStart(_)
OrderByStart(rows) ==
    IF rows = {} THEN <<>>
    ELSE LET r == CHOOSE x \in rows :
                    \A y \in rows :
                       \/ x.start < y.start
                       \/ /\ x.start = y.start
                          /\ \/ x.end < y.end
                             \/ x.end = y.end /\ x.warehouse <= y.warehouse
         IN <<r>> \o OrderByStart(rows \ {r})

----------------------------------------------------------------------------
(* UsageBasePlugin._incomplete_price *)

\* usage_type.usageprice_set.filter(end__gte=start, start__lte=end)
FilterIntersecting(start, end) ==
    { up \in usageprices : up.end >= start /\ up.start <= end }

\* the loop that adds the overlapping days of every price row
RECURSIVE OverlappingDays(_, _, _)
OverlappingDays(ups, start, end) ==
    IF ups = <<>> THEN 0
    ELSE (DaysBetween(Max(start, Head(ups).start), Min(end, Head(ups).end)) + 1)
         + OverlappingDays(Tail(ups), start, end)

IncompletePrice(ut, start, end, warehouse) ==
    LET total_days == DaysBetween(start, end) + 1
        filtered   == FilterIntersecting(start, end)
        usage_prices ==
            IF ut.by_warehouse /\ warehouse # None
            THEN { up \in filtered : up.warehouse = warehouse }
            ELSE filtered
        ut_days == OverlappingDays(OrderByStart(usage_prices), start, end)
    IN IF ut_days = 0 THEN "No price"
       ELSE IF ut_days # total_days THEN "Incomplete price"
       ELSE "None"

----------------------------------------------------------------------------
(* Report cells, rows and column keys *)

\* a cell of a venture row: a number, or a message such as 'No price'
Number(n) == [num |-> n, msg |-> ""]

Message(m) == [num |-> 0, msg |-> m]

IsNumber(cell) == cell.msg = ""

\* Python truth of `no_price_msg and self._incomplete_price(...)'
Truthy(x) == x \notin {"False", "None"}

\* cell += n; adding a number to a message raises TypeError
CellAdd(cell, n) ==
    IF IsNumber(cell) THEN Number(cell.num + n) ELSE Message("TypeError")

\* defaultdict(int): a missing key reads as 0
Get(row, key) == IF key \in DOMAIN row THEN row[key] ELSE Number(0)

Put(row, key, cell) ==
    [k \in DOMAIN row \cup {key} |-> IF k = key THEN cell ELSE row[k]]

\* 'ut_{0}_count_wh_{1}'.format(usage_type.id, warehouse.id)
CountKeyWh(ut, warehouse) ==
    "ut_" \o ToString(ut.id) \o "_count_wh_" \o ToString(warehouse)

\* 'ut_{0}_cost_wh_{1}'.format(usage_type.id, warehouse.id)
CostKeyWh(ut, warehouse) ==
    "ut_" \o ToString(ut.id) \o "_cost_wh_" \o ToString(warehouse)

\* 'ut_{0}_total_cost'.format(usage_type.id)
TotalCostKey(ut) == "ut_" \o ToString(ut.id) \o "_total_cost"

\* 'ut_{0}_count'.format(usage_type.id)
CountKey(ut) == "ut_" \o ToString(ut.id) \o "_count"

\* 'ut_{0}_cost'.format(usage_type.id)
CostKey(ut) == "ut_" \o ToString(ut.id) \o "_cost"

----------------------------------------------------------------------------
(* UsageBasePlugin._get_usages_per_warehouse *)

\* the price of a price row: forecast or real, from the cost for by_cost
PriceOf(ut, usage_price, forecast, warehouse) ==
    IF ut.by_cost THEN GetPriceFromCost(usage_price, forecast, warehouse)
    ELSE IF forecast THEN usage_price.forecast_price
    ELSE usage_price.price

\* usage_prices of one warehouse iteration, ordered by start
PricesOfWarehouse(start, end, warehouse) ==
    OrderByStart({ up \in FilterIntersecting(start, end) :
                     warehouse # None => up.warehouse = warehouse })

\* AddUsage with the total cost added even where the price is undefined
AddUsageTotalAlways(row, ut, warehouse, price_undefined, usage, price) ==
    LET count_key == IF ut.by_warehouse THEN CountKeyWh(ut, warehouse)
                     ELSE CountKey(ut)
        cost_key  == IF ut.by_warehouse THEN CostKeyWh(ut, warehouse)
                     ELSE CostKey(ut)
        total_cost_key == TotalCostKey(ut)
        cost == usage * price
        r1 == Put(row, count_key, CellAdd(Get(row, count_key), usage))
        r2 == IF Truthy(price_undefined)
              THEN Put(r1, cost_key, Message(price_undefined))
              ELSE Put(r1, cost_key, CellAdd(Get(r1, cost_key), cost))
    IN IF ut.by_warehouse
       THEN Put(r2, total_cost_key, CellAdd(Get(r2, total_cost_key), cost))
       ELSE r2

\* AddUsage with the total cost kept for every usage type
AddUsageTotalAnyType(row, ut, warehouse, price_undefined, usage, price) ==
    LET count_key == IF ut.by_warehouse THEN CountKeyWh(ut, warehouse)
                     ELSE CountKey(ut)
        cost_key  == IF ut.by_warehouse THEN CostKeyWh(ut, warehouse)
                     ELSE CostKey(ut)
        total_cost_key == TotalCostKey(ut)
        cost == usage * price
        r1 == Put(row, count_key, CellAdd(Get(row, count_key), usage))
        r2 == IF Truthy(price_undefined)
              THEN Put(r1, cost_key, Message(price_undefined))
              ELSE Put(r1, cost_key, CellAdd(Get(r1, cost_key), cost))
    IN IF ~Truthy(price_undefined)
       THEN Put(r2, total_cost_key, CellAdd(Get(r2, total_cost_key), cost))
       ELSE r2

\* AddUsage with the cost assigned to the cell instead of added to it
AddUsageAssign(row, ut, warehouse, price_undefined, usage, price) ==
    LET count_key == IF ut.by_warehouse THEN CountKeyWh(ut, warehouse)
                     ELSE CountKey(ut)
        cost_key  == IF ut.by_warehouse THEN CostKeyWh(ut, warehouse)
                     ELSE CostKey(ut)
        total_cost_key == TotalCostKey(ut)
        cost == usage * price
        r1 == Put(row, count_key, CellAdd(Get(row, count_key), usage))
        r2 == IF Truthy(price_undefined)
              THEN Put(r1, cost_key, Message(price_undefined))
              ELSE Put(r1, cost_key, Number(cost))
    IN IF ut.by_warehouse /\ ~Truthy(price_undefined)
       THEN Put(r2, total_cost_key, Number(cost))
       ELSE r2

\* the body of the loop over usages_per_venture, for one venture
AddUsage(row, ut, warehouse, price_undefined, usage, price) ==
    LET count_key == IF ut.by_warehouse THEN CountKeyWh(ut, warehouse)
                     ELSE CountKey(ut)
        cost_key  == IF ut.by_warehouse THEN CostKeyWh(ut, warehouse)
                     ELSE CostKey(ut)
        total_cost_key == TotalCostKey(ut)
        cost == usage * price
        r1 == Put(row, count_key, CellAdd(Get(row, count_key), usage))
        r2 == IF Truthy(price_undefined)
              THEN Put(r1, cost_key, Message(price_undefined))
              ELSE Put(r1, cost_key, CellAdd(Get(r1, cost_key), cost))
    IN IF ut.by_warehouse /\ ~Truthy(price_undefined)
       THEN Put(r2, total_cost_key, CellAdd(Get(r2, total_cost_key), cost))
       ELSE r2

\* add_usages_per_venture(up_start, up_end, price)
AddUsagesPerVenture(result, ut, warehouse, ventures, price_undefined, up_start, up_end, price) ==
    LET usages_per_venture ==
            GetUsagesInPeriodPerVenture(up_start, up_end, ut, warehouse, ventures)
        vs == { v.pricing_venture : v \in usages_per_venture }
        UsageOf(venture) ==
            (CHOOSE v \in usages_per_venture : v.pricing_venture = venture).usage
    IN [venture \in DOMAIN result \cup vs |->
          IF venture \in vs
          THEN AddUsage(IF venture \in DOMAIN result THEN result[venture] ELSE <<>>,
                        ut, warehouse, price_undefined, UsageOf(venture), price)
          ELSE result[venture]]

\* the loop over the price rows of one warehouse
RECURSIVE UsagePricesLoop(_, _, _, _, _, _, _, _, _)
UsagePricesLoop(result, ups, ut, warehouse, ventures, price_undefined, start, end, forecast) ==
    IF ups = <<>> THEN result
    ELSE LET usage_price == Head(ups)
             price    == PriceOf(ut, usage_price, forecast, warehouse)
             up_start == Max(start, usage_price.start)
             up_end   == Min(end, usage_price.end)
         IN UsagePricesLoop(
                AddUsagesPerVenture(result, ut, warehouse, ventures,
                                    price_undefined, up_start, up_end, price),
                Tail(ups), ut, warehouse, ventures, price_undefined,
                start, end, forecast)

\* one iteration of the loop over the warehouses
WarehouseStep(result, ut, warehouse, start, end, forecast, ventures, no_price_msg) ==
    LET price_undefined ==
            IF no_price_msg THEN IncompletePrice(ut, start, end, warehouse)
            ELSE "False"
        usage_prices == PricesOfWarehouse(start, end, warehouse)
    IN IF usage_prices # <<>>
       THEN UsagePricesLoop(result, usage_prices, ut, warehouse, ventures,
                            price_undefined, start, end, forecast)
       ELSE AddUsagesPerVenture(result, ut, warehouse, ventures,
                                price_undefined, start, end, 0)

RECURSIVE WarehousesLoop(_, _, _, _, _, _, _, _)
WarehousesLoop(result, whs, ut, start, end, forecast, ventures, no_price_msg) ==
    IF whs = <<>> THEN result
    ELSE WarehousesLoop(
             WarehouseStep(result, ut, Head(whs), start, end, forecast,
                           ventures, no_price_msg),
             Tail(whs), ut, start, end, forecast, ventures, no_price_msg)

GetUsagesPerWarehouse(ut, start, end, forecast, ventures, no_price_msg) ==
    LET whs == IF ut.by_warehouse THEN GetWarehouses ELSE <<None>>
    IN WarehousesLoop(<<>>, whs, ut, start, end, forecast, ventures, no_price_msg)

\* UsageBasePlugin.usages
Usages(start, end, ventures, ut, forecast, no_price_msg) ==
    GetUsagesPerWarehouse(ut, start, end, forecast, ventures, no_price_msg)

----------------------------------------------------------------------------
(* UsageBasePlugin._get_total_cost_by_warehouses and total_cost *)

\* the loop over the price rows of one warehouse: <<usage, cost>>
RECURSIVE CostLoop(_, _, _, _, _, _, _, _)
CostLoop(acc, ups, ut, warehouse, ventures, start, end, forecast) ==
    IF ups = <<>> THEN acc
    ELSE LET usage_price == Head(ups)
             price    == PriceOf(ut, usage_price, forecast, warehouse)
             up_start == Max(start, usage_price.start)
             up_end   == Min(end, usage_price.end)
             total_usage ==
                 GetTotalUsageInPeriod(up_start, up_end, ut, warehouse, ventures)
             cost == total_usage * price
         IN CostLoop(<<acc[1] + total_usage, acc[2] + cost>>,
                     Tail(ups), ut, warehouse, ventures, start, end, forecast)

\* the loop over the warehouses: the result list and the running total
RECURSIVE TotalCostLoop(_, _, _, _, _, _, _)
TotalCostLoop(acc, whs, ut, start, end, ventures, forecast) ==
    IF whs = <<>> THEN acc
    ELSE LET warehouse == Head(whs)
             in_wh == CostLoop(<<0, 0>>, PricesOfWarehouse(start, end, warehouse),
                               ut, warehouse, ventures, start, end, forecast)
         IN TotalCostLoop(
                [result |-> acc.result \o <<in_wh[1], in_wh[2]>>,
                 total_cost |-> acc.total_cost + in_wh[2]],
                Tail(whs), ut, start, end, ventures, forecast)

\* _get_total_cost_by_warehouses without the total appended to the list
GetTotalCostByWarehousesNoTotal(start, end, ventures, ut, forecast) ==
    LET whs == IF ut.by_warehouse THEN GetWarehouses ELSE <<None>>
        acc == TotalCostLoop([result |-> <<>>, total_cost |-> 0], whs, ut,
                             start, end, ventures, forecast)
    IN IF ut.by_warehouse /\ whs = <<>> THEN <<acc.total_cost>> ELSE acc.result

GetTotalCostByWarehouses(start, end, ventures, ut, forecast) ==
    LET whs == IF ut.by_warehouse THEN GetWarehouses ELSE <<None>>
        acc == TotalCostLoop([result |-> <<>>, total_cost |-> 0], whs, ut,
                             start, end, ventures, forecast)
    IN IF ut.by_warehouse THEN acc.result \o <<acc.total_cost>> ELSE acc.result

\* UsageBasePlugin.total_cost: costs_by_wh[-1]
TotalCost(start, end, ventures, ut, forecast) ==
    LET costs_by_wh == GetTotalCostByWarehouses(start, end, ventures, ut, forecast)
    IN costs_by_wh[Len(costs_by_wh)]

----------------------------------------------------------------------------
(* UsageBasePlugin.schema: the ordered mapping as a sequence of columns *)

Column(key, currency, total_cost) ==
    [key |-> key, currency |-> currency, total_cost |-> total_cost]

RECURSIVE SchemaLoop(_, _, _)
SchemaLoop(schema, whs, ut) ==
    IF whs = <<>> THEN schema
    ELSE SchemaLoop(schema \o << Column(CountKeyWh(ut, Head(whs)), FALSE, FALSE),
                                 Column(CostKeyWh(ut, Head(whs)), TRUE, FALSE) >>,
                    Tail(whs), ut)

\* schema with the total cost column ahead of the warehouse columns
SchemaTotalFirst(ut) ==
    IF ut.by_warehouse
    THEN << Column(TotalCostKey(ut), TRUE, TRUE) >>
         \o SchemaLoop(<<>>, GetWarehouses, ut)
    ELSE << Column(CountKey(ut), FALSE, FALSE),
            Column(CostKey(ut), TRUE, TRUE) >>

Schema(ut) ==
    IF ut.by_warehouse
    THEN SchemaLoop(<<>>, GetWarehouses, ut)
         \o << Column(TotalCostKey(ut), TRUE, TRUE) >>
    ELSE << Column(CountKey(ut), FALSE, FALSE),
            Column(CostKey(ut), TRUE, TRUE) >>

----------------------------------------------------------------------------
(* The state machine *)

Idle == [op |-> "idle"]

Init ==
    /\ usage_type \in UsageTypes
    /\ usageprices \in SubsetsUpTo({ up \in UsagePrices : up.start <= up.end }, MaxPrices)
    /\ dailyusages \in DailyUsageTables
    \* only a by_warehouse type reads the warehouses: for the other types
    \* the list is the whole table
    /\ warehouses \in IF usage_type.by_warehouse THEN WarehouseLists
                      ELSE {WarehouseOrder}
    /\ call = Idle
    /\ ret = "None"

\* a call of _incomplete_price(usage_type, start, end, warehouse)
CallIncompletePrice ==
    /\ call = Idle
    /\ \E start \in Days, end \in Days, warehouse \in WarehouseIds \cup {None} :
        /\ start <= end
        /\ call' = [op |-> "_incomplete_price", start |-> start, end |-> end,
                    warehouse |-> warehouse]
        /\ ret' = IncompletePrice(usage_type, start, end, warehouse)
    /\ UNCHANGED db

\* usages that keeps the filtered price rows in place of the table
CallUsagesFiltering ==
    /\ call = Idle
    /\ \E start \in Days, end \in Days, ventures \in SUBSET Ventures \ {{}},
          forecast \in BOOLEAN, no_price_msg \in BOOLEAN :
        /\ start <= end
        /\ call' = [op |-> "usages", start |-> start, end |-> end,
                    ventures |-> ventures, forecast |-> forecast,
                    no_price_msg |-> no_price_msg]
        /\ ret' = Usages(start, end, ventures, usage_type, forecast, no_price_msg)
        /\ usageprices' = FilterIntersecting(start, end)
    /\ UNCHANGED <<usage_type, dailyusages, warehouses>>

\* a call of usages(start, end, ventures, usage_type, forecast, no_price_msg)
CallUsages ==
    /\ call = Idle
    /\ \E start \in Days, end \in Days, ventures \in SUBSET Ventures \ {{}},
          forecast \in BOOLEAN, no_price_msg \in BOOLEAN :
        /\ start <= end
        /\ call' = [op |-> "usages", start |-> start, end |-> end,
                    ventures |-> ventures, forecast |-> forecast,
                    no_price_msg |-> no_price_msg]
        /\ ret' = Usages(start, end, ventures, usage_type, forecast, no_price_msg)
    /\ UNCHANGED db

\* a call of total_cost(start, end, ventures, usage_type, forecast)
CallTotalCost ==
    /\ call = Idle
    /\ \E start \in Days, end \in Days, ventures \in SUBSET Ventures \ {{}},
          forecast \in BOOLEAN :
        /\ start <= end
        /\ call' = [op |-> "total_cost", start |-> start, end |-> end,
                    ventures |-> ventures, forecast |-> forecast]
        /\ ret' = TotalCost(start, end, ventures, usage_type, forecast)
    /\ UNCHANGED db

\* a call of schema(usage_type)
CallSchema ==
    /\ call = Idle
    /\ call' = [op |-> "schema"]
    /\ ret' = Schema(usage_type)
    /\ UNCHANGED db

\* the call returns to the report view, which is free to call again
Return ==
    /\ call # Idle
    /\ call' = Idle
    /\ ret' = "None"
    /\ UNCHANGED db

Next ==
    \/ CallIncompletePrice
    \/ CallUsages
    \/ CallTotalCost
    \/ CallSchema
    \/ Return

Spec == Init /\ [][Next]_vars

----------------------------------------------------------------------------
(* What the claims speak of, stated without the plugin's algorithms *)

\* the warehouses a report iterates over
ReportWarehouses(ut) ==
    IF ut.by_warehouse THEN { warehouses[i] : i \in DOMAIN warehouses }
    ELSE {None}

\* the price rows of the usage type, of the warehouse for a by_warehouse
\* type when a warehouse is given
PriceRecords(ut, warehouse) ==
    { up \in usageprices :
        (ut.by_warehouse /\ warehouse # None) => up.warehouse = warehouse }

DayHasPrice(ut, warehouse, d) ==
    \E up \in PriceRecords(ut, warehouse) : up.start <= d /\ d <= up.end

EveryDayHasPrice(ut, start, end, warehouse) ==
    \A d \in start..end : DayHasPrice(ut, warehouse, d)

SomeRecordIntersects(ut, start, end, warehouse) ==
    \E up \in PriceRecords(ut, warehouse) : up.end >= start /\ up.start <= end

\* the usage of one venture in the period, every day counted once
VentureUsage(venture, start, end, warehouse) ==
    SumValues(UsagesInPeriod(start, end, warehouse, {venture}))

\* the cost column of a warehouse (of the report when the type is not
\* by_warehouse) and its count column
CostColumn(ut, warehouse) ==
    IF ut.by_warehouse THEN CostKeyWh(ut, warehouse) ELSE CostKey(ut)

CountColumn(ut, warehouse) ==
    IF ut.by_warehouse THEN CountKeyWh(ut, warehouse) ELSE CountKey(ut)

Messages == {"No price", "Incomplete price"}

\* the sum of the values of a function of finite domain
RECURSIVE SumOver(_)
SumOver(f) ==
    IF DOMAIN f = {} THEN 0
    ELSE LET x == CHOOSE y \in DOMAIN f : TRUE
         IN f[x] + SumOver([z \in DOMAIN f \ {x} |-> f[z]])

----------------------------------------------------------------------------
(* C1, C2: _incomplete_price *)

\* C1: _incomplete_price returns None if and only if every day of the report
\* period [start, end] has a price record of the usage type (of the given
\* warehouse for a by_warehouse type), for any set of price records.
C1_NoneIffEveryDayPriced ==
    call.op = "_incomplete_price" =>
        (ret = "None" <=>
            EveryDayHasPrice(usage_type, call.start, call.end, call.warehouse))

\* C2: 'No price' exactly when no price record intersects the period,
\* 'Incomplete price' whenever a record intersects it but the period is
\* covered only partially, and no other value than these two and None.
C2_SentinelsMatchCoverage ==
    call.op = "_incomplete_price" =>
        LET some  == SomeRecordIntersects(usage_type, call.start, call.end,
                                          call.warehouse)
            every == EveryDayHasPrice(usage_type, call.start, call.end,
                                      call.warehouse)
        IN /\ ret \in Messages \cup {"None"}
           /\ ret = "No price" <=> ~some
           /\ (some /\ ~every) => ret = "Incomplete price"

----------------------------------------------------------------------------
(* C3, C4, C8, C9, C10: usages *)

\* C3: without no_price_msg every cost cell is a number; with no_price_msg,
\* where the price of the period is undefined or only partially defined for
\* a warehouse, the cost cell of every venture with usage there is the
\* message 'No price' or 'Incomplete price'; nothing is ever added to a
\* cell that holds a message.
C3_CostCellsNumberOrMessage ==
    call.op = "usages" =>
        /\ \A v \in DOMAIN ret : \A k \in DOMAIN ret[v] :
               ret[v][k].msg # "TypeError"
        /\ ~call.no_price_msg =>
               \A v \in DOMAIN ret : \A k \in DOMAIN ret[v] : IsNumber(ret[v][k])
        /\ call.no_price_msg =>
               \A wh \in ReportWarehouses(usage_type) :
                  ~EveryDayHasPrice(usage_type, call.start, call.end, wh) =>
                     \A v \in call.ventures :
                        UsagesInPeriod(call.start, call.end, wh, {v}) # {} =>
                           /\ v \in DOMAIN ret
                           /\ CostColumn(usage_type, wh) \in DOMAIN ret[v]
                           /\ ret[v][CostColumn(usage_type, wh)].msg \in Messages

\* C4: the count cell of a venture (per warehouse for a by_warehouse type)
\* is the venture's usage summed over every day of [start, end], each day
\* counted once, for any set of price records.
C4_CountIsUsageOfPeriod ==
    call.op = "usages" =>
        \A wh \in ReportWarehouses(usage_type) : \A v \in DOMAIN ret :
            CountColumn(usage_type, wh) \in DOMAIN ret[v] =>
                ret[v][CountColumn(usage_type, wh)] =
                    Number(VentureUsage(v, call.start, call.end, wh))

\* the cost cells of a row that are numbers, summed over the warehouses
NumericCostsOfRow(row, ut) ==
    LET numeric == { wh \in ReportWarehouses(ut) :
                       /\ CostKeyWh(ut, wh) \in DOMAIN row
                       /\ IsNumber(row[CostKeyWh(ut, wh)]) }
    IN SumOver([wh \in numeric |-> row[CostKeyWh(ut, wh)].num])

\* C8: for a by_warehouse type the total_cost cell of a row, when present,
\* is a number, the sum of the per-warehouse cost cells of the row that are
\* numbers; it is never a message.
C8_TotalIsSumOfNumericCosts ==
    (call.op = "usages" /\ usage_type.by_warehouse) =>
        \A v \in DOMAIN ret :
            TotalCostKey(usage_type) \in DOMAIN ret[v] =>
                /\ IsNumber(ret[v][TotalCostKey(usage_type)])
                /\ ret[v][TotalCostKey(usage_type)].num =
                       NumericCostsOfRow(ret[v], usage_type)

C8_Witness ==
    /\ call.op = "usages"
    /\ usage_type.by_warehouse
    /\ \E v \in DOMAIN ret : \E w1 \in WarehouseIds, w2 \in WarehouseIds :
          /\ TotalCostKey(usage_type) \in DOMAIN ret[v]
          /\ ret[v][TotalCostKey(usage_type)].num > 0
          /\ CostKeyWh(usage_type, w1) \in DOMAIN ret[v]
          /\ CostKeyWh(usage_type, w2) \in DOMAIN ret[v]
          /\ ret[v][CostKeyWh(usage_type, w1)].msg \in Messages
          /\ IsNumber(ret[v][CostKeyWh(usage_type, w2)])

\* the keys of a schema
SchemaKeys(schema) == { schema[i].key : i \in DOMAIN schema }

\* C9: every column key of every venture row returned by usages is a key
\* of schema(usage_type), for both kinds of usage type and every value of
\* forecast and no_price_msg.
C9_RowKeysAreSchemaKeys ==
    call.op = "usages" =>
        \A v \in DOMAIN ret : DOMAIN ret[v] \subseteq SchemaKeys(Schema(usage_type))

C9_Witness ==
    /\ call.op = "usages"
    /\ usage_type.by_warehouse
    /\ Len(warehouses) = 2
    /\ \E v \in DOMAIN ret : DOMAIN ret[v] = SchemaKeys(Schema(usage_type))

\* the key of the schema column flagged 'total_cost'
TotalCostColumn(schema) ==
    schema[CHOOSE i \in DOMAIN schema : schema[i].total_cost].key

\* the sum over the venture rows of the cost flagged 'total_cost'
SumOfFlaggedCosts(rows, ut) ==
    SumOver([v \in DOMAIN rows |-> Get(rows[v], TotalCostColumn(Schema(ut))).num])

\* C10: with no_price_msg False the costs flagged 'total_cost', summed over
\* the venture rows of usages, equal total_cost of the same arguments (both
\* 0 when no price record intersects the period).
C10_UsagesAgreeWithTotalCost ==
    (call.op = "usages" /\ ~call.no_price_msg) =>
        SumOfFlaggedCosts(ret, usage_type) =
            TotalCost(call.start, call.end, call.ventures, usage_type,
                      call.forecast)

C10_Witness ==
    /\ call.op = "usages"
    /\ ~call.no_price_msg
    /\ Cardinality(DOMAIN ret) = 2
    /\ Cardinality(FilterIntersecting(call.start, call.end)) >= 2
    /\ SumOfFlaggedCosts(ret, usage_type) > 0

----------------------------------------------------------------------------
(* C5: total_cost *)

\* the price the claim names for a price row
ClaimedPrice(ut, up, forecast, warehouse) ==
    IF ut.by_cost THEN GetPriceFromCost(up, forecast, warehouse)
    ELSE IF forecast THEN up.forecast_price
    ELSE up.price

\* over the price rows (of the warehouse) that intersect [start, end]: the
\* total usage in the row's range clipped to [start, end], times its price
ClaimedCost(start, end, ventures, ut, forecast, warehouse) ==
    LET rows == { up \in usageprices :
                    /\ up.start <= end /\ up.end >= start
                    /\ warehouse # None => up.warehouse = warehouse }
    IN SumOver([up \in rows |->
                  GetTotalUsageInPeriod(Max(start, up.start), Min(end, up.end),
                                        ut, warehouse, ventures)
                  * ClaimedPrice(ut, up, forecast, warehouse)])

\* C5: total_cost is, for a type that is not by_warehouse, the sum over the
\* price rows intersecting [start, end] of the clipped total usage times
\* the price, and for a by_warehouse type the sum of that over every
\* warehouse of get_warehouses (0 without warehouses); the price is
\* forecast_price or price by forecast, or _get_price_from_cost for by_cost.
C5_TotalCostIsSumOfPricedUsage ==
    call.op = "total_cost" =>
        ret = SumOver([wh \in ReportWarehouses(usage_type) |->
                         ClaimedCost(call.start, call.end, call.ventures,
                                     usage_type, call.forecast, wh)])

C5_Witness ==
    /\ call.op = "total_cost"
    /\ usage_type.by_warehouse
    /\ Len(warehouses) = 2
    /\ call.forecast
    /\ Cardinality(FilterIntersecting(call.start, call.end)) >= 2
    /\ \A wh \in ReportWarehouses(usage_type) :
          ClaimedCost(call.start, call.end, call.ventures, usage_type,
                      call.forecast, wh) > 0
    /\ ret > 0

----------------------------------------------------------------------------
(* C6: the operations only read the external entities *)

\* C6: no call of usages, total_cost or schema (nor of _incomplete_price),
\* in any sequence, changes the UsageType, UsagePrice, DailyUsage or
\* Warehouse rows.
C6_EntitiesOnlyRead == [][UNCHANGED db]_vars

C6_Witness ==
    /\ call.op = "usages"
    /\ usageprices # {}
    /\ FilterIntersecting(call.start, call.end) # usageprices
    /\ DOMAIN ret # {}

----------------------------------------------------------------------------
(* C7: schema *)

\* C7: exactly one column of the schema is flagged 'total_cost' and it is
\* the last one; the columns are count then cost for a type that is not
\* by_warehouse, and count then cost per warehouse in get_warehouses order
\* followed by the total cost (2*N+1 columns) for a by_warehouse type;
\* every cost column is flagged 'currency' and no count column is.
C7_SchemaColumns ==
    call.op = "schema" =>
        LET id == ToString(usage_type.id)
            n  == Len(warehouses)
        IN /\ Len(ret) >= 1
           /\ { i \in DOMAIN ret : ret[i].total_cost } = {Len(ret)}
           /\ \A i \in DOMAIN ret, j \in DOMAIN ret :
                  ret[i].key = ret[j].key => i = j
           /\ ~usage_type.by_warehouse =>
                  /\ Len(ret) = 2
                  /\ ret[1].key = "ut_" \o id \o "_count"
                  /\ ~ret[1].currency
                  /\ ret[2].key = "ut_" \o id \o "_cost"
                  /\ ret[2].currency
           /\ usage_type.by_warehouse =>
                  /\ Len(ret) = 2 * n + 1
                  /\ \A i \in 1..n :
                        LET wh == ToString(warehouses[i])
                        IN /\ ret[2 * i - 1].key =
                                 "ut_" \o id \o "_count_wh_" \o wh
                           /\ ~ret[2 * i - 1].currency
                           /\ ret[2 * i].key = "ut_" \o id \o "_cost_wh_" \o wh
                           /\ ret[2 * i].currency
                  /\ ret[Len(ret)].key = "ut_" \o id \o "_total_cost"
                  /\ ret[Len(ret)].currency

C7_Witness ==
    /\ call.op = "schema"
    /\ usage_type.by_warehouse
    /\ Len(warehouses) = 2
    /\ Len(ret) = 5

====
